---- MODULE Spec2Model ----
(***************************************************************************)
(* ReviewMaestro payment backend (src/app.py): the startup sequence of the *)
(* __main__ block and the request handlers of the Flask application, one   *)
(* request in flight at a time.  The billing provider's SDK is the         *)
(* environment: every call into it either returns or raises one of its     *)
(* typed errors, chosen nondeterministically.                              *)
(***************************************************************************)
EXTENDS Integers, Sequences, FiniteSets, TLC

VARIABLES
    env,              \* os.environ as read by the process (fixed at launch)
    PRICE_IDS,        \* the price table built from the environment at import
    sdkVerifiesFirst, \* build of the provider SDK: signature checked before json.loads
    main,             \* position in the __main__ block
    exitcode,         \* exit status once main = "exited"
    passed,           \* the startup checks that have passed so far
    now,              \* wall clock, in units of tolerance windows
    received_at,      \* the clock when the request in flight / last served arrived
    route,            \* view function of the request in flight / last served
    pc,               \* position inside that view function
    payload,          \* webhook: request.get_data()
    sig_header,       \* webhook: request.headers.get('Stripe-Signature')
    endpoint_secret,  \* webhook: os.getenv('STRIPE_WEBHOOK_SECRET')
    event,            \* webhook: what construct_event returned
    data,             \* API routes: request.get_json()
    customer,         \* create_subscription: the customer returned by the provider
    raised,           \* API routes: the exception raised inside the try block, if any
    calls,            \* calls made by this request: handlers and provider calls
    log,              \* logger records written by this request
    resp,             \* the HTTP response of the request
    seen              \* observer: one remembered webhook delivery and its outcome

vars == <<env, PRICE_IDS, sdkVerifiesFirst, main, exitcode, passed, now, received_at, route, pc, payload,
          sig_header, endpoint_secret, event, data, customer, raised, calls, log, resp, seen>>

----------------------------------------------------------------------------
(* Bounds of the model *)

MaxClock == 2

(* Sentinels for Python's None / a missing key *)
NoVal == "<unset>"
NoType == "<no type>"

(* Mutant: only None counts as "not configured". *)
Falsy_NoneOnly(s) == s = NoVal

(* Python truthiness of an optional string: `not s`. *)
Falsy(s) == s \in {NoVal, ""}

----------------------------------------------------------------------------
(* Webhook inputs *)

RecognizedTypes == {"customer.subscription.created", "customer.subscription.updated",
                    "customer.subscription.deleted", "invoice.payment_succeeded",
                    "invoice.payment_failed", "customer.subscription.trial_will_end"}

(* A type the dispatcher does not know, and a near miss of a known one. *)
OtherTypes == {"charge.succeeded", "customer.subscription.create"}

ObjectKeys == {"id", "status", "amount_paid", "customer"}

(* A data object is the set of keys it carries; has = FALSE: no data.object. *)
NoObject == [has |-> FALSE, keys |-> {}]
Objects == {[has |-> TRUE, keys |-> ObjectKeys], [has |-> TRUE, keys |-> {"id"}]}

BadJson == [json |-> FALSE, type |-> NoType, obj |-> NoObject]

Payloads ==
    {BadJson}
    \cup {[json |-> TRUE, type |-> t, obj |-> o] : t \in RecognizedTypes \cup OtherTypes,
                                                    o \in Objects}
    \cup {[json |-> TRUE, type |-> NoType, obj |-> [has |-> TRUE, keys |-> ObjectKeys]],
          [json |-> TRUE, type |-> "invoice.payment_failed", obj |-> NoObject]}

Secrets == {NoVal, "", "whsec_A"}

(* The provider's MAC over "<t>.<payload>" under key k, as an ideal (injective) MAC. *)
Sign(k, t, p) == [k |-> k, t |-> t, p |-> p]

NoMac == Sign("", 0, BadJson)
NoHeader == [kind |-> "none", t |-> 0, mac |-> NoMac]
Garbage == [kind |-> "garbage", t |-> 0, mac |-> NoMac]
V1(t, mac) == [kind |-> "v1", t |-> t, mac |-> mac]

OtherPayload(p) == IF p = BadJson
                   THEN [json |-> TRUE, type |-> "charge.succeeded",
                         obj |-> [has |-> TRUE, keys |-> ObjectKeys]]
                   ELSE BadJson

(* Headers a delivery of payload p at time n may carry. *)
SigHeaders(p, n) ==
    {NoHeader, Garbage}
    \cup {V1(t, Sign("whsec_A", t, p)) : t \in 0..n}         \* signed by the provider
    \cup {V1(n, Sign("whsec_B", n, p)),                       \* signed with another key
          V1(n, Sign("whsec_A", n, OtherPayload(p))),         \* signature of another body
          V1(n, Sign("whsec_A", 0, p))}                       \* timestamp rewritten

----------------------------------------------------------------------------
NoResp == [status |-> 0, msg |-> "", arg |-> <<>>]
Response(s, m, a) == [status |-> s, msg |-> m, arg |-> a]
NoEvent == BadJson
NoSeen == [on |-> FALSE, set |-> FALSE, payload |-> BadJson, sig |-> NoHeader, secret |-> NoVal,
           at |-> 0, resp |-> NoResp]
NoData == [kind |-> "none", fields |-> {}, plan |-> <<>>, billing_cycle |-> <<>>]
Call(f, a) == [fn |-> f, arg |-> a]
Log(l, m, a) == [level |-> l, msg |-> m, args |-> a]

----------------------------------------------------------------------------
(* Process environment *)

Unset == [set |-> FALSE, chars |-> <<>>]
Str(cs) == [set |-> TRUE, chars |-> cs]

PortValues == {Unset, Str(<<"8", "0">>), Str(<<"a", "b", "c">>)}

Envs == [STRIPE_SECRET_KEY : {NoVal, "", "sk_live"},
         STRIPE_PUBLISHABLE_KEY : {NoVal, "", "pk_live"},
         PORT : PortValues]

Digits == {"0", "1", "2", "3", "4", "5", "6", "7", "8", "9"}
DigitValue(c) == CASE c = "0" -> 0 [] c = "1" -> 1 [] c = "2" -> 2 [] c = "3" -> 3
                   [] c = "4" -> 4 [] c = "5" -> 5 [] c = "6" -> 6 [] c = "7" -> 7
                   [] c = "8" -> 8 [] c = "9" -> 9

(* int(str): ValueError unless the string is a decimal numeral. *)
IntParses(cs) == Len(cs) > 0 /\ \A i \in 1..Len(cs) : cs[i] \in Digits
RECURSIVE IntOf(_)
IntOf(cs) == IF cs = <<>> THEN 0
             ELSE 10 * IntOf(SubSeq(cs, 1, Len(cs) - 1)) + DigitValue(cs[Len(cs)])

DefaultPort == 5000

(* f"{plan}_{billing_cycle}"; strings are sequences of tokens. *)
PlanKey(plan, billing_cycle) == plan \o <<"_">> \o billing_cycle

PriceKeys == {PlanKey(<<pl>>, <<bc>>) : pl \in {"starter", "professional"},
                                        bc \in {"monthly", "yearly"}}

(* PRICE_IDS, lines 20-25: every key is present; its value is what os.getenv
   gave: None, an empty string or a price id. *)
SomePrices == [k \in PriceKeys |->
                 CASE k = PlanKey(<<"starter">>, <<"yearly">>) -> NoVal
                   [] k = PlanKey(<<"professional">>, <<"monthly">>) -> ""
                   [] OTHER -> "price_1"]
PriceTables == {SomePrices}

(* Mutant: an unknown key falls back to a default price. *)
Get_Default(table, key) == IF key \in DOMAIN table THEN table[key] ELSE "price_1"

(* dict.get(key): None when the key is absent. *)
Get(table, key) == IF key \in DOMAIN table THEN table[key] ELSE NoVal

----------------------------------------------------------------------------
(* The provider SDK's webhook verification, as called at app.py:161 with the
   default tolerance. *)

(* Webhook.DEFAULT_TOLERANCE (300 s), the unit of the model's clock. *)
Tolerance == 1

(* WebhookSignature.verify_header: TRUE iff it returns without raising.  A
   tolerance of 0 switches the timestamp check off. *)
VerifyHeader(p, h, secret, clock, tolerance) ==
    /\ h.kind = "v1"                                  \* timestamp and signatures extracted
    /\ h.mac = Sign(secret, h.t, p)                   \* a signature matches the expected one
    /\ ~(tolerance # 0 /\ h.t < clock - tolerance)    \* timestamp inside the tolerance zone

(* stripe.Webhook.construct_event: "ok" or the exception it raises.  Builds of
   the SDK differ in whether json.loads runs before or after verify_header. *)
ConstructEvent(p, h, secret, clock, tolerance, verifyFirst) ==
    IF verifyFirst
    THEN IF ~VerifyHeader(p, h, secret, clock, tolerance) THEN "SignatureVerificationError"
         ELSE IF ~p.json THEN "ValueError" ELSE "ok"
    ELSE IF ~p.json THEN "ValueError"
         ELSE IF ~VerifyHeader(p, h, secret, clock, tolerance)
              THEN "SignatureVerificationError"
              ELSE "ok"

----------------------------------------------------------------------------
(* Webhook handlers: logging stubs that index the data object. *)

Handlers == {"handle_subscription_created", "handle_subscription_updated",
             "handle_subscription_deleted", "handle_payment_succeeded",
             "handle_payment_failed", "handle_trial_will_end"}
NoHandler == "<none>"

(* Keys each handler reads, in the order its f-string evaluates them. *)
KeysRead(h) ==
    CASE h = "handle_subscription_created" -> <<"id">>
      [] h = "handle_subscription_updated" -> <<"id", "status">>
      [] h = "handle_subscription_deleted" -> <<"id">>
      [] h = "handle_payment_succeeded"    -> <<"id", "amount_paid">>
      [] h = "handle_payment_failed"       -> <<"id", "customer">>
      [] h = "handle_trial_will_end"       -> <<"id">>

HandlerLog(h) ==
    CASE h = "handle_subscription_created" -> "Subscription created"
      [] h = "handle_subscription_updated" -> "Subscription updated"
      [] h = "handle_subscription_deleted" -> "Subscription cancelled"
      [] h = "handle_payment_succeeded"    -> "Payment succeeded"
      [] h = "handle_payment_failed"       -> "Payment failed"
      [] h = "handle_trial_will_end"       -> "Trial ending soon for subscription"

(* The first key the handler reads that the object lacks: the KeyError it
   raises; NoVal when it returns. *)
HandlerRaises(h, obj) ==
    LET ks == KeysRead(h)
        missing == {i \in 1..Len(ks) : ks[i] \notin obj.keys}
    IN IF missing = {} THEN NoVal
       ELSE ks[CHOOSE i \in missing : \A j \in missing : i <= j]

(* Mutant: the first branch matches on a prefix instead of the whole tag. *)
HandlerFor_Prefix(event_type) ==
    CASE event_type \in {"customer.subscription.created", "customer.subscription.create"}
                                                             -> "handle_subscription_created"
      [] event_type = "customer.subscription.updated"        -> "handle_subscription_updated"
      [] event_type = "customer.subscription.deleted"        -> "handle_subscription_deleted"
      [] event_type = "invoice.payment_succeeded"            -> "handle_payment_succeeded"
      [] event_type = "invoice.payment_failed"               -> "handle_payment_failed"
      [] event_type = "customer.subscription.trial_will_end" -> "handle_trial_will_end"
      [] OTHER                                               -> NoHandler

(* The if/elif chain of stripe_webhook. *)
HandlerFor(event_type) ==
    CASE event_type = "customer.subscription.created"        -> "handle_subscription_created"
      [] event_type = "customer.subscription.updated"        -> "handle_subscription_updated"
      [] event_type = "customer.subscription.deleted"        -> "handle_subscription_deleted"
      [] event_type = "invoice.payment_succeeded"            -> "handle_payment_succeeded"
      [] event_type = "invoice.payment_failed"               -> "handle_payment_failed"
      [] event_type = "customer.subscription.trial_will_end" -> "handle_trial_will_end"
      [] OTHER                                               -> NoHandler

----------------------------------------------------------------------------
(* State machine *)

Init ==
    /\ env \in Envs
    /\ PRICE_IDS \in PriceTables
    /\ sdkVerifiesFirst \in BOOLEAN
    /\ main = "start"
    /\ exitcode = 0
    /\ passed = {}
    /\ now = 0
    /\ received_at = 0
    /\ route = "none"
    /\ pc = "idle"
    /\ payload = BadJson
    /\ sig_header = NoHeader
    /\ endpoint_secret = NoVal
    /\ event = NoEvent
    /\ data = NoData
    /\ customer = NoVal
    /\ raised = NoVal
    /\ calls = <<>>
    /\ log = <<>>
    /\ resp = NoResp
    /\ seen = NoSeen

startupVars == <<env, PRICE_IDS, sdkVerifiesFirst, main, exitcode, passed>>
requestVars == <<received_at, route, pc, payload, sig_header, endpoint_secret, event, data,
                 customer, raised, calls, log, resp, seen>>

(* Mutant: missing variables are logged but the process carries on. *)
CheckEnv_NoExit ==
    /\ main = "start"
    /\ main' = "validate"
    /\ passed' = IF \E v \in {"STRIPE_SECRET_KEY", "STRIPE_PUBLISHABLE_KEY"} : Falsy(env[v])
                 THEN passed ELSE passed \cup {"credentials"}
    /\ UNCHANGED <<env, PRICE_IDS, sdkVerifiesFirst, exitcode, now>>
    /\ UNCHANGED requestVars

(* __main__, lines 281-294: required environment variables. *)
CheckEnv ==
    /\ main = "start"
    /\ LET missing_vars == {v \in {"STRIPE_SECRET_KEY", "STRIPE_PUBLISHABLE_KEY"} :
                                Falsy(env[v])}
       IN IF missing_vars # {}
          THEN /\ main' = "exited"
               /\ exitcode' = 1
               /\ passed' = passed
          ELSE /\ main' = "validate"
               /\ passed' = passed \cup {"credentials"}
               /\ exitcode' = exitcode
    /\ UNCHANGED <<env, PRICE_IDS, sdkVerifiesFirst, now>>
    /\ UNCHANGED requestVars

(* __main__, lines 296-305: stripe.Account.retrieve() returns or raises. *)
AccountOutcomes == {"ok", "AuthenticationError", "APIConnectionError"}

ValidateStripe ==
    /\ main = "validate"
    /\ \E outcome \in AccountOutcomes :
          IF outcome = "ok"
          THEN /\ main' = "run"
               /\ passed' = passed \cup {"connectivity"}
               /\ exitcode' = exitcode
          ELSE /\ main' = "exited"
               /\ exitcode' = 1
               /\ passed' = passed
    /\ UNCHANGED <<env, PRICE_IDS, sdkVerifiesFirst, now>>
    /\ UNCHANGED requestVars

(* __main__, lines 307-314: int(os.getenv('PORT', 5000)) and app.run.  A
   ValueError from int() is not caught: the interpreter exits with status 1. *)
RunApp ==
    /\ main = "run"
    /\ IF env.PORT.set /\ ~IntParses(env.PORT.chars)
       THEN /\ main' = "exited"
            /\ exitcode' = 1
       ELSE /\ main' = "serving"
            /\ exitcode' = exitcode
    /\ UNCHANGED <<env, PRICE_IDS, sdkVerifiesFirst, passed, now>>
    /\ UNCHANGED requestVars

Port == IF env.PORT.set THEN IntOf(env.PORT.chars) ELSE DefaultPort

(* Time passes between requests. *)
Tick ==
    /\ main = "serving"
    /\ pc \in {"idle", "done"}
    /\ now < MaxClock
    /\ now' = now + 1
    /\ UNCHANGED startupVars
    /\ UNCHANGED requestVars

Accepting == main = "serving" /\ pc \in {"idle", "done"}

(* The observer, when switched on, remembers the first webhook delivery it
   sees complete. *)
Observe(r) ==
    IF route = "webhook" /\ seen.on /\ ~seen.set
    THEN [on |-> TRUE, set |-> TRUE, payload |-> payload, sig |-> sig_header,
          secret |-> endpoint_secret, at |-> received_at, resp |-> r]
    ELSE seen

Return(r) ==
    /\ resp' = r
    /\ pc' = "done"
    /\ seen' = Observe(r)

----------------------------------------------------------------------------
(* POST /api/webhook *)

(* lines 152-154 *)
Deliver(payloads, secrets) ==
    /\ Accepting
    /\ \E p \in payloads, s \in secrets :
       \E h \in SigHeaders(p, now) :
          /\ payload' = p
          /\ sig_header' = h
          /\ endpoint_secret' = s
    /\ received_at' = now
    /\ route' = "webhook"
    /\ pc' = "secret"
    /\ event' = NoEvent
    /\ data' = NoData
    /\ customer' = NoVal
    /\ raised' = NoVal
    /\ calls' = <<>>
    /\ log' = <<>>
    /\ resp' = NoResp
    /\ UNCHANGED <<seen, now>>
    /\ UNCHANGED startupVars

WebhookReceive == Deliver(Payloads, Secrets)

(* lines 156-158 *)
WebhookCheckSecret ==
    /\ route = "webhook" /\ pc = "secret"
    /\ IF Falsy(endpoint_secret)
       THEN /\ log' = Append(log, Log("error", "Webhook secret not configured", <<>>))
            /\ Return(Response(400, "Webhook secret not configured", <<>>))
       ELSE /\ pc' = "construct"
            /\ UNCHANGED <<log, resp, seen>>
    /\ UNCHANGED <<received_at, route, payload, sig_header, endpoint_secret, event, data, customer, raised,
                   calls, now>>
    /\ UNCHANGED startupVars

(* Mutant: the body is parsed without verifying the signature. *)
ConstructOutcome_Unverified == IF payload.json THEN "ok" ELSE "ValueError"

(* Mutant: the call switches the timestamp tolerance off. *)
ConstructOutcome_NoTolerance ==
    ConstructEvent(payload, sig_header, endpoint_secret, now, 0, sdkVerifiesFirst)

(* lines 161-163: the call, which leaves the tolerance at its default. *)
ConstructOutcome ==
    ConstructEvent(payload, sig_header, endpoint_secret, now, Tolerance, sdkVerifiesFirst)

(* lines 160-169 *)
WebhookConstruct ==
    /\ route = "webhook" /\ pc = "construct"
    /\ calls' = Append(calls, Call("stripe.Webhook.construct_event", {}))
    /\ LET r == ConstructOutcome
       IN CASE r = "ValueError" ->
                 /\ log' = Append(log, Log("error", "Invalid payload", <<>>))
                 /\ Return(Response(400, "Invalid payload", <<>>))
                 /\ event' = event
            [] r = "SignatureVerificationError" ->
                 /\ log' = Append(log, Log("error", "Invalid signature", <<>>))
                 /\ Return(Response(400, "Invalid signature", <<>>))
                 /\ event' = event
            [] OTHER ->
                 /\ event' = payload
                 /\ pc' = "read"
                 /\ UNCHANGED <<log, resp, seen>>
    /\ UNCHANGED <<received_at, route, payload, sig_header, endpoint_secret, data, customer, raised, now>>
    /\ UNCHANGED startupVars

(* lines 171-175; a KeyError here is outside every try block and reaches the
   application's 500 handler, lines 276-278. *)
WebhookRead ==
    /\ route = "webhook" /\ pc = "read"
    /\ IF event.type = NoType \/ ~event.obj.has
       THEN /\ Return(Response(500, "Internal server error", <<>>))
            /\ log' = log
       ELSE /\ log' = Append(log, Log("info", "Received webhook event", <<event.type>>))
            /\ pc' = "dispatch"
            /\ UNCHANGED <<resp, seen>>
    /\ UNCHANGED <<received_at, route, payload, sig_header, endpoint_secret, event, data, customer, raised,
                   calls, now>>
    /\ UNCHANGED startupVars

(* Mutant: no try around the dispatch; the error reaches the 500 handler. *)
OnHandlerError_Uncaught(event_type, e) ==
    /\ log' = log
    /\ Return(Response(500, "Internal server error", <<>>))

(* Mutant: the except clause logs and forgets to return. *)
OnHandlerError_FallThrough(event_type, e) ==
    /\ log' = Append(log, Log("error", "Error handling webhook", <<event_type, e>>))
    /\ pc' = "ack"
    /\ UNCHANGED <<resp, seen>>

(* lines 192-194: the except clause around the dispatch; e is str() of the
   exception.  The log record names the event type, the response body does not. *)
OnHandlerError(event_type, e) ==
    /\ log' = Append(log, Log("error", "Error handling webhook", <<event_type, e>>))
    /\ Return(Response(500, "Error handling webhook", <<e>>))

(* lines 177-194 *)
WebhookDispatch ==
    /\ route = "webhook" /\ pc = "dispatch"
    /\ LET event_type == event.type
           data_object == event.obj
           h == HandlerFor(event_type)
       IN IF h = NoHandler
          THEN /\ log' = Append(log, Log("info", "Unhandled event type", <<event_type>>))
               /\ calls' = calls
               /\ pc' = "ack"
               /\ UNCHANGED <<resp, seen>>
          ELSE LET e == HandlerRaises(h, data_object)
               IN /\ calls' = Append(calls, Call(h, data_object.keys))
                  /\ IF e = NoVal
                     THEN /\ log' = Append(log, Log("info", HandlerLog(h), KeysRead(h)))
                          /\ pc' = "ack"
                          /\ UNCHANGED <<resp, seen>>
                     ELSE OnHandlerError(event_type, e)
    /\ UNCHANGED <<received_at, route, payload, sig_header, endpoint_secret, event, data, customer, raised, now>>
    /\ UNCHANGED startupVars

(* line 196 *)
WebhookAck ==
    /\ route = "webhook" /\ pc = "ack"
    /\ Return(Response(200, "success", <<>>))
    /\ UNCHANGED <<received_at, route, payload, sig_header, endpoint_secret, event, data, customer, raised,
                   calls, log, now>>
    /\ UNCHANGED startupVars

----------------------------------------------------------------------------
(* The provider's exception classes (stripe.error) and Python's own. *)

ProviderErrors == {"CardError", "RateLimitError", "InvalidRequestError", "IdempotencyError",
                   "AuthenticationError", "PermissionError", "APIConnectionError",
                   "APIError"}

(* Every provider error derives from StripeError, everything from Exception. *)
Parent(c) == IF c \in ProviderErrors THEN "StripeError" ELSE "Exception"

(* isinstance(e, c) *)
IsInstance(e, c) == c \in {e, Parent(e), Parent(Parent(e))}

Clause(c, status, msg) == [class |-> c, status |-> status, msg |-> msg]

(* The first except clause that matches e, turned into the response. *)
Handle(clauses, e) ==
    LET i == CHOOSE i \in 1..Len(clauses) :
                 /\ IsInstance(e, clauses[i].class)
                 /\ \A j \in 1..(i - 1) : ~IsInstance(e, clauses[j].class)
    IN Response(clauses[i].status, clauses[i].msg, <<>>)

(* create_subscription, lines 102-122 *)
SubscriptionClauses ==
    << Clause("CardError", 400, "Card error"),
       Clause("RateLimitError", 429, "Too many requests. Please try again later."),
       Clause("InvalidRequestError", 400, "Invalid request"),
       Clause("AuthenticationError", 401, "Authentication failed. Please contact support."),
       Clause("APIConnectionError", 503, "Network error. Please try again."),
       Clause("StripeError", 400, "Payment processing error"),
       Clause("Exception", 500, "An unexpected error occurred. Please try again.") >>

(* create_portal_session, lines 142-147 *)
PortalClauses ==
    << Clause("StripeError", 400, "Stripe error"),
       Clause("Exception", 500, "An unexpected error occurred") >>

(* get_subscription_status, lines 265-270 *)
StatusClauses ==
    << Clause("StripeError", 400, "Stripe error"),
       Clause("Exception", 500, "An unexpected error occurred") >>

(* An exception leaves the try block of an API route: it is recorded and the
   matching except clause answers. *)
Raise(clauses, e) ==
    /\ raised' = e
    /\ log' = Append(log, Log("error", Handle(clauses, e).msg, <<e>>))
    /\ Return(Handle(clauses, e))

(* A new API request arrives with JSON body d (None when there is none). *)
Arrive(r, first, d) ==
    /\ Accepting
    /\ received_at' = now
    /\ route' = r
    /\ pc' = first
    /\ data' = d
    /\ payload' = BadJson
    /\ sig_header' = NoHeader
    /\ endpoint_secret' = NoVal
    /\ event' = NoEvent
    /\ customer' = NoVal
    /\ raised' = NoVal
    /\ calls' = <<>>
    /\ log' = <<>>
    /\ resp' = NoResp
    /\ UNCHANGED <<seen, now>>
    /\ UNCHANGED startupVars

apiStepVars == <<received_at, route, payload, sig_header, endpoint_secret, event, data, now>>

----------------------------------------------------------------------------
(* POST /api/create-subscription *)

required_fields == <<"email", "name", "plan", "billing_cycle", "payment_method_id">>
Fields == {required_fields[i] : i \in 1..Len(required_fields)}

Plans == {<<"starter">>, <<"professional">>, <<"enterprise">>}
Cycles == {<<"monthly">>, <<"yearly">>, <<"weekly">>}

(* request.get_json(): None (a JSON null body), or an object carrying some of
   the fields. *)
SubscriptionBodies ==
    {NoData}
    \cup {[kind |-> "object", fields |-> fs, plan |-> pl, billing_cycle |-> bc] :
             fs \in SUBSET Fields, pl \in Plans \cup {<<>>}, bc \in Cycles \cup {<<>>}}

(* A field has a value exactly when it is present. *)
Consistent(d) ==
    /\ ("plan" \in d.fields) <=> (d.plan # <<>>)
    /\ ("billing_cycle" \in d.fields) <=> (d.billing_cycle # <<>>)

SubscriptionReceive ==
    \E d \in {b \in SubscriptionBodies : Consistent(b)} :
        Arrive("create_subscription", "validate", d)

(* lines 53-55: the first required field the body lacks, 0 when none. *)
FirstMissing(d) ==
    LET missing == {i \in 1..Len(required_fields) : required_fields[i] \notin d.fields}
    IN IF missing = {} THEN 0 ELSE CHOOSE i \in missing : \A j \in missing : i <= j

(* lines 49-62 *)
SubscriptionValidate ==
    /\ route = "create_subscription" /\ pc = "validate"
    /\ IF data.kind = "none"
       THEN Raise(SubscriptionClauses, "TypeError")      \* `field in None`
       ELSE /\ raised' = raised
            /\ log' = log
            /\ IF FirstMissing(data) # 0
               THEN Return(Response(400, "Missing required field",
                                    <<required_fields[FirstMissing(data)]>>))
               ELSE LET plan_key == PlanKey(data.plan, data.billing_cycle)
                        price_id == Get(PRICE_IDS, plan_key)
                    IN IF Falsy(price_id)
                       THEN Return(Response(400, "Invalid plan or billing cycle",
                                            plan_key))
                       ELSE /\ pc' = "customer"
                            /\ UNCHANGED <<resp, seen>>
    /\ UNCHANGED <<customer, calls>>
    /\ UNCHANGED apiStepVars
    /\ UNCHANGED startupVars

ProviderOutcomes == {"ok"} \cup ProviderErrors \cup {"ConnectionResetError"}

(* The ids the provider may give a new customer. *)
CustomerIds == {"cus_1", "cus_2"}

(* lines 64-78 *)
SubscriptionCreateCustomer ==
    /\ route = "create_subscription" /\ pc = "customer"
    /\ calls' = Append(calls, Call("stripe.Customer.create", {"email", "payment_method"}))
    /\ \E outcome \in ProviderOutcomes :
          IF outcome = "ok"
          THEN \E id \in CustomerIds :
                  /\ customer' = id
                  /\ log' = Append(log, Log("info", "Customer created", <<id>>))
                  /\ pc' = "subscription"
                  /\ UNCHANGED <<raised, resp, seen>>
          ELSE /\ Raise(SubscriptionClauses, outcome)
               /\ customer' = customer
    /\ UNCHANGED apiStepVars
    /\ UNCHANGED startupVars

(* Mutant: a failed subscription is compensated by deleting the customer. *)
SubscriptionCreateSubscription_Compensates ==
    /\ route = "create_subscription" /\ pc = "subscription"
    /\ \E outcome \in ProviderOutcomes \cup {"AttributeError"} :
          IF outcome = "ok"
          THEN /\ calls' = Append(calls, Call("stripe.Subscription.create", {customer}))
               /\ log' = Append(log, Log("info", "Subscription created", <<"sub_1", customer>>))
               /\ Return(Response(200, "subscription", <<"sub_1">>))
               /\ raised' = raised
          ELSE /\ calls' = calls \o <<Call("stripe.Subscription.create", {customer}),
                                      Call("stripe.Customer.delete", {customer})>>
               /\ Raise(SubscriptionClauses, outcome)
    /\ customer' = customer
    /\ UNCHANGED apiStepVars
    /\ UNCHANGED startupVars

(* lines 80-100: the call returns or raises; reading latest_invoice and its
   payment_intent off the returned subscription may raise AttributeError. *)
SubscriptionCreateSubscription ==
    /\ route = "create_subscription" /\ pc = "subscription"
    /\ calls' = Append(calls, Call("stripe.Subscription.create", {customer}))
    /\ \E outcome \in ProviderOutcomes \cup {"AttributeError"} :
          IF outcome = "ok"
          THEN /\ log' = Append(log, Log("info", "Subscription created", <<"sub_1", customer>>))
               /\ Return(Response(200, "subscription", <<"sub_1">>))
               /\ raised' = raised
          ELSE Raise(SubscriptionClauses, outcome)
    /\ customer' = customer
    /\ UNCHANGED apiStepVars
    /\ UNCHANGED startupVars

----------------------------------------------------------------------------
(* POST /api/create-portal-session *)

PortalBodies ==
    {NoData,
     [NoData EXCEPT !.kind = "object"],
     [NoData EXCEPT !.kind = "object", !.fields = {"customer_id"}],
     [NoData EXCEPT !.kind = "object", !.fields = {"customer_id", "return_url"}]}

PortalReceive == \E d \in PortalBodies : Arrive("create_portal_session", "validate", d)

(* lines 128-131 *)
PortalValidate ==
    /\ route = "create_portal_session" /\ pc = "validate"
    /\ IF data.kind = "none"
       THEN Raise(PortalClauses, "TypeError")            \* `'customer_id' in None`
       ELSE /\ raised' = raised
            /\ log' = log
            /\ IF "customer_id" \notin data.fields
               THEN Return(Response(400, "Missing customer_id", <<>>))
               ELSE /\ pc' = "session"
                    /\ UNCHANGED <<resp, seen>>
    /\ UNCHANGED <<customer, calls>>
    /\ UNCHANGED apiStepVars
    /\ UNCHANGED startupVars

(* lines 133-140 *)
PortalCreateSession ==
    /\ route = "create_portal_session" /\ pc = "session"
    /\ calls' = Append(calls, Call("stripe.billing_portal.Session.create", {"customer"}))
    /\ \E outcome \in ProviderOutcomes :
          IF outcome = "ok"
          THEN /\ log' = Append(log, Log("info", "Portal session created", <<"customer">>))
               /\ Return(Response(200, "url", <<>>))
               /\ raised' = raised
          ELSE Raise(PortalClauses, outcome)
    /\ customer' = customer
    /\ UNCHANGED apiStepVars
    /\ UNCHANGED startupVars

----------------------------------------------------------------------------
(* GET /api/subscription-status/<customer_id> *)

StatusReceive ==
    Arrive("get_subscription_status", "list", [NoData EXCEPT !.fields = {"customer_id"}])

(* What stripe.Subscription.list gives: an error, an empty list, or a list
   whose first subscription is then read attribute by attribute; reading it
   may itself raise AttributeError. *)
ListOutcomes == ProviderOutcomes \cup {"empty", "AttributeError"}

(* lines 241-263 *)
StatusList ==
    /\ route = "get_subscription_status" /\ pc = "list"
    /\ calls' = Append(calls, Call("stripe.Subscription.list", {"customer"}))
    /\ \E outcome \in ListOutcomes :
          CASE outcome = "empty" ->
                 /\ Return(Response(200, "no_subscription", <<>>))
                 /\ UNCHANGED <<raised, log>>
            [] outcome = "ok" ->
                 /\ Return(Response(200, "subscription", <<"sub_1">>))
                 /\ UNCHANGED <<raised, log>>
            [] OTHER -> Raise(StatusClauses, outcome)
    /\ customer' = customer
    /\ UNCHANGED apiStepVars
    /\ UNCHANGED startupVars

Next ==
    \/ CheckEnv
    \/ ValidateStripe
    \/ RunApp
    \/ Tick
    \/ WebhookReceive
    \/ WebhookCheckSecret
    \/ WebhookConstruct
    \/ WebhookRead
    \/ WebhookDispatch
    \/ WebhookAck
    \/ SubscriptionReceive
    \/ SubscriptionValidate
    \/ SubscriptionCreateCustomer
    \/ SubscriptionCreateSubscription
    \/ PortalReceive
    \/ PortalValidate
    \/ PortalCreateSession
    \/ StatusReceive
    \/ StatusList

Spec == Init /\ [][Next]_vars

----------------------------------------------------------------------------
(* The serving process watched by the observer: it starts where startup left
   it and takes webhook deliveries of a sample of payloads, so that the same
   delivery can come again after any other ones. *)

ReplayPayloads ==
    {BadJson,
     [json |-> TRUE, type |-> "invoice.payment_failed", obj |-> [has |-> TRUE, keys |-> ObjectKeys]],
     [json |-> TRUE, type |-> "invoice.payment_failed", obj |-> [has |-> TRUE, keys |-> {"id"}]],
     [json |-> TRUE, type |-> "charge.succeeded", obj |-> [has |-> TRUE, keys |-> ObjectKeys]],
     [json |-> TRUE, type |-> NoType, obj |-> [has |-> TRUE, keys |-> ObjectKeys]]}

ReplaySecrets == {NoVal, "whsec_A"}

InitReplay ==
    /\ env = [STRIPE_SECRET_KEY |-> "sk_live", STRIPE_PUBLISHABLE_KEY |-> "pk_live",
              PORT |-> Unset]
    /\ PRICE_IDS = SomePrices
    /\ sdkVerifiesFirst \in BOOLEAN
    /\ main = "serving"
    /\ exitcode = 0
    /\ passed = {"credentials", "connectivity"}
    /\ now = 0
    /\ received_at = 0
    /\ route = "none"
    /\ pc = "idle"
    /\ payload = BadJson
    /\ sig_header = NoHeader
    /\ endpoint_secret = NoVal
    /\ event = NoEvent
    /\ data = NoData
    /\ customer = NoVal
    /\ raised = NoVal
    /\ calls = <<>>
    /\ log = <<>>
    /\ resp = NoResp
    /\ seen = [NoSeen EXCEPT !.on = TRUE]

ReplayReceive == Deliver(ReplayPayloads, ReplaySecrets)

NextReplay ==
    \/ Tick
    \/ ReplayReceive
    \/ WebhookCheckSecret
    \/ WebhookConstruct
    \/ WebhookRead
    \/ WebhookDispatch
    \/ WebhookAck

ReplaySpec == InitReplay /\ [][NextReplay]_vars

----------------------------------------------------------------------------
(* Properties of the webhook route *)

Success == Response(200, "success", <<>>)
HandlerCalls == SelectSeq(calls, LAMBDA c : c.fn \in Handlers)
WebhookDone == route = "webhook" /\ pc = "done"

(* The header carries a signature of this very body and timestamp under the
   configured secret. *)
Authentic ==
    /\ endpoint_secret \notin {NoVal, ""}
    /\ sig_header.kind = "v1"
    /\ sig_header.mac = Sign(endpoint_secret, sig_header.t, payload)

(* The authenticated body decoded to an event with a type and a data object. *)
EventRead == event # NoEvent /\ event.type # NoType /\ event.obj.has

(* C1: a handler runs only for a delivery whose signature header matches the
   body under the configured secret; every delivery whose header is missing,
   malformed or mismatching is answered 400 with no handler invoked. *)
C1_UnauthenticatedRejected ==
    route = "webhook" =>
        /\ HandlerCalls # <<>> => Authentic
        /\ (pc = "done" /\ ~Authentic) => (resp.status = 400 /\ HandlerCalls = <<>>)

C1_Witness ==
    /\ WebhookDone
    /\ endpoint_secret = "whsec_A"
    /\ payload.type \in RecognizedTypes /\ payload.obj.has
    /\ sig_header.kind = "v1" /\ sig_header.mac # Sign("whsec_A", sig_header.t, payload)
    /\ resp = Response(400, "Invalid signature", <<>>)

C2_Expected(t) ==
    CASE t = "customer.subscription.created"        -> "handle_subscription_created"
      [] t = "customer.subscription.updated"        -> "handle_subscription_updated"
      [] t = "customer.subscription.deleted"        -> "handle_subscription_deleted"
      [] t = "invoice.payment_succeeded"            -> "handle_payment_succeeded"
      [] t = "invoice.payment_failed"               -> "handle_payment_failed"
      [] t = "customer.subscription.trial_will_end" -> "handle_trial_will_end"

(* C2: once an authenticated event has been dispatched, a recognized type has
   had exactly its own handler invoked, once, with the event's data object,
   and any other type has had no handler invoked and is answered with the
   success acknowledgement; before dispatch no handler has run. *)
C2_ExactDispatch ==
    route = "webhook" =>
        /\ pc \in {"secret", "construct", "read", "dispatch"} => HandlerCalls = <<>>
        /\ (EventRead /\ pc \in {"ack", "done"}) =>
              IF event.type \in RecognizedTypes
              THEN HandlerCalls = <<Call(C2_Expected(event.type), event.obj.keys)>>
              ELSE HandlerCalls = <<>> /\ (pc = "done" => resp = Success)

C2_Witness ==
    /\ WebhookDone
    /\ event.type = "invoice.payment_failed"
    /\ HandlerCalls = <<Call("handle_payment_failed", ObjectKeys)>>
    /\ resp = Success

(* The handler dispatched for the event raised. *)
HandlerRaised ==
    /\ WebhookDone /\ EventRead
    /\ event.type \in RecognizedTypes
    /\ HandlerRaises(C2_Expected(event.type), event.obj) # NoVal

(* C3 as claimed: when the dispatched handler raises, the response is a 500
   whose message names the offending event type. *)
C3_ResponseNamesType ==
    HandlerRaised => resp = Response(500, "Error handling webhook", <<event.type>>)

(* C3 amended: when the dispatched handler raises, the error is caught by the
   view, the log record names the event type, the response is a 500 whose
   body carries the error's text, and no acknowledgement is sent. *)
C3_HandlerErrorCaught ==
    HandlerRaised =>
        LET e == HandlerRaises(C2_Expected(event.type), event.obj)
        IN /\ resp = Response(500, "Error handling webhook", <<e>>)
           /\ log[Len(log)] = Log("error", "Error handling webhook", <<event.type, e>>)
           /\ resp # Success

C3_Witness ==
    /\ HandlerRaised
    /\ event.type = "invoice.payment_succeeded"
    /\ resp = Response(500, "Error handling webhook", <<"amount_paid">>)

(* C4: with no shared secret configured a delivery is answered 400 "Webhook
   secret not configured" without construct_event or any handler being
   called, and that answer is given in no other case. *)
C4_SecretNotConfigured ==
    route = "webhook" =>
        /\ endpoint_secret \in {NoVal, ""} =>
              /\ calls = <<>> /\ event = NoEvent /\ pc \in {"secret", "done"}
              /\ pc = "done" => resp = Response(400, "Webhook secret not configured", <<>>)
        /\ (pc = "done" /\ resp.msg = "Webhook secret not configured") =>
              endpoint_secret \in {NoVal, ""}

C4_Witness ==
    /\ WebhookDone
    /\ endpoint_secret = ""
    /\ sig_header.kind = "v1"
    /\ resp = Response(400, "Webhook secret not configured", <<>>)

(* C5: the success acknowledgement exists only once the request is finished,
   after construct_event was called on an authentic delivery and after the
   dispatched handler, if the type has one, was invoked and returned. *)
C5_AckLast ==
    (route = "webhook" /\ resp = Success) =>
        /\ pc = "done"
        /\ Authentic
        /\ Len(calls) >= 1 /\ calls[1].fn = "stripe.Webhook.construct_event"
        /\ EventRead
        /\ event.type \in RecognizedTypes =>
              /\ calls = <<calls[1], Call(C2_Expected(event.type), event.obj.keys)>>
              /\ HandlerRaises(C2_Expected(event.type), event.obj) = NoVal

C5_Witness ==
    /\ route = "webhook" /\ resp = Success
    /\ event.type = "customer.subscription.updated"
    /\ Len(calls) = 2

----------------------------------------------------------------------------
(* Redelivery, checked under ReplaySpec *)

Class(r) == <<r.status, r.msg>>

SameTriple ==
    /\ seen.set /\ WebhookDone
    /\ payload = seen.payload /\ sig_header = seen.sig /\ endpoint_secret = seen.secret

(* The header's timestamp is older than the tolerance window at time clock. *)
Stale(h, clock) == h.kind = "v1" /\ clock - h.t > Tolerance

(* The body is unparsable or decodes to an event with type and data object. *)
WellFormed(p) == ~p.json \/ (p.type # NoType /\ p.obj.has)

(* C6 as claimed: a delivery of a triple (body, signature header, secret)
   gets the classification its first delivery got, whatever was delivered
   in between, and the view raises nothing for a well-formed body. *)
C6_SameTripleSameClass ==
    /\ SameTriple => Class(resp) = Class(seen.resp)
    /\ (WebhookDone /\ WellFormed(payload)) => resp.msg # "Internal server error"

(* C6 amended: the classification is a function of the triple and of whether
   the header's timestamp has left the tolerance window: a redelivery with
   the same timestamp status gets the first delivery's classification, a
   delivery with a stale timestamp under a configured secret is answered 400
   with no handler invoked, and the view raises nothing for a well-formed body. *)
C6_SameTripleSameClassWithinTolerance ==
    /\ (SameTriple /\ Stale(sig_header, received_at) = Stale(seen.sig, seen.at)) =>
          Class(resp) = Class(seen.resp)
    /\ (WebhookDone /\ endpoint_secret \notin {NoVal, ""} /\ Stale(sig_header, received_at)) =>
          (resp.status = 400 /\ HandlerCalls = <<>>)
    /\ (WebhookDone /\ WellFormed(payload)) => resp.msg # "Internal server error"

C6_Witness ==
    /\ SameTriple
    /\ received_at > seen.at
    /\ ~Stale(sig_header, received_at)
    /\ seen.resp = Success /\ resp = Success

----------------------------------------------------------------------------
(* Properties of the API routes *)

SubscriptionDone == route = "create_subscription" /\ pc = "done"

C7_FirstMissing(d) ==
    CASE "email" \notin d.fields             -> "email"
      [] "name" \notin d.fields              -> "name"
      [] "plan" \notin d.fields              -> "plan"
      [] "billing_cycle" \notin d.fields     -> "billing_cycle"
      [] "payment_method_id" \notin d.fields -> "payment_method_id"
      [] OTHER                               -> NoVal

(* C7: a create-subscription request lacking a required field is answered 400
   "Missing required field: <f>", f the first missing field in the declared
   order, with no provider call; a request carrying all five fields is never
   answered that way, whatever their values. *)
C7_MissingFieldRejected ==
    SubscriptionDone =>
        IF C7_FirstMissing(data) # NoVal
        THEN /\ resp = Response(400, "Missing required field", <<C7_FirstMissing(data)>>)
             /\ calls = <<>>
        ELSE resp.msg # "Missing required field"

C8_Unpriced(d) ==
    LET key == PlanKey(d.plan, d.billing_cycle)
    IN key \notin DOMAIN PRICE_IDS \/ PRICE_IDS[key] \in {NoVal, ""}

(* C8: a create-subscription request carrying all required fields whose key
   "<plan>_<billing_cycle>" has no configured price id is answered 400
   "Invalid plan or billing cycle" with no provider call, and a request whose
   key has a price id is not answered that way. *)
C8_UnpricedPlanRejected ==
    (SubscriptionDone /\ data.kind = "object" /\ Fields \subseteq data.fields) =>
        IF C8_Unpriced(data)
        THEN /\ resp = Response(400, "Invalid plan or billing cycle",
                                PlanKey(data.plan, data.billing_cycle))
             /\ calls = <<>>
        ELSE resp.msg # "Invalid plan or billing cycle"

C8_Witness ==
    /\ SubscriptionDone
    /\ Fields \subseteq data.fields
    /\ data.plan = <<"enterprise">> /\ data.billing_cycle = <<"monthly">>
    /\ resp = Response(400, "Invalid plan or billing cycle", <<"enterprise", "_", "monthly">>)

C9_Status(e) ==
    CASE e = "CardError"           -> 400
      [] e = "RateLimitError"      -> 429
      [] e = "InvalidRequestError" -> 400
      [] e = "AuthenticationError" -> 401
      [] e = "APIConnectionError"  -> 503
      [] e \in ProviderErrors      -> 400
      [] OTHER                     -> 500

(* C9: in each of the three pass-through routes an exception raised inside
   the route is answered with the status of its category: card error 400,
   rate limit 429, invalid request 400, authentication 401, network 503, any
   other provider error 400, anything else 500. *)
C9_ErrorsMappedByCategory ==
    (/\ route \in {"create_subscription", "create_portal_session", "get_subscription_status"}
     /\ pc = "done"
     /\ raised # NoVal) => resp.status = C9_Status(raised)

----------------------------------------------------------------------------
(* Properties of startup *)

CredentialsPresent ==
    /\ env.STRIPE_SECRET_KEY \notin {NoVal, ""}
    /\ env.STRIPE_PUBLISHABLE_KEY \notin {NoVal, ""}

BothChecks == {"credentials", "connectivity"}

(* C10 as claimed: an exit is nonzero and happens only when a credential is
   absent or the connectivity check failed; serving begins only after both
   checks; a process that passed both checks does not exit. *)
C10_ExitsOnlyOnFailedCheck ==
    /\ main = "exited" => (exitcode # 0 /\ passed # BothChecks)
    /\ ~CredentialsPresent => main \in {"start", "exited"}
    /\ (main = "serving" \/ route # "none") => passed = BothChecks

C10_StartupInv ==
    /\ main = "exited" =>
          /\ exitcode # 0
          /\ \/ passed # BothChecks
             \/ env.PORT.set /\ \E i \in 1..Len(env.PORT.chars) : env.PORT.chars[i] \notin Digits
          /\ route = "none"
    /\ ~CredentialsPresent => main \in {"start", "exited"}
    /\ "connectivity" \in passed => "credentials" \in passed
    /\ (main = "serving" \/ route # "none") =>
          (main = "serving" /\ passed = BothChecks /\ CredentialsPresent)

(* C10 amended: the process exits, with a nonzero code, when a credential is
   absent, when the connectivity check fails, or when both passed and PORT is
   not a decimal number; no request is served before both checks passed; and
   once serving, no step of the program leaves that state. *)
C10_StartupThenServe ==
    /\ []C10_StartupInv
    /\ [][main = "serving" => main' = "serving"]_vars
    /\ [][main = "exited" => main' = "exited"]_vars

C10_Witness ==
    /\ main = "serving"
    /\ env.PORT.set
    /\ route = "create_subscription" /\ pc = "done"
    /\ passed = BothChecks

----------------------------------------------------------------------------
(* Provider calls of one create-subscription request *)

CustomerCreate == Call("stripe.Customer.create", {"email", "payment_method"})
SubscriptionCreate(id) == Call("stripe.Subscription.create", {id})

(* C11: a create-subscription request calls the provider at most twice, one
   create-customer and then one create-subscription: the second call is made
   only once the first has returned a customer and it names that customer;
   a failed call is not repeated; and when create-subscription fails the
   request ends with the error's mapped status, having made no further call,
   so the customer it created stays with the provider. *)
C11_CustomerThenSubscriptionOnce ==
    route = "create_subscription" =>
        /\ \/ calls = <<>> /\ customer = NoVal
           \/ calls = <<CustomerCreate>>
           \/ /\ customer \in CustomerIds
              /\ calls = <<CustomerCreate, SubscriptionCreate(customer)>>
        /\ pc = "validate" => calls = <<>>
        /\ pc = "customer" => calls = <<>>
        /\ pc = "subscription" => (calls = <<CustomerCreate>> /\ customer \in CustomerIds)
        /\ (pc = "done" /\ calls = <<CustomerCreate>>) =>
              (customer = NoVal /\ raised # NoVal /\ resp.status = C9_Status(raised))
        /\ (pc = "done" /\ Len(calls) = 2) =>
              IF raised = NoVal
              THEN resp = Response(200, "subscription", <<"sub_1">>)
              ELSE resp.status = C9_Status(raised) /\ customer \in CustomerIds

C11_Witness ==
    /\ SubscriptionDone
    /\ customer = "cus_2"
    /\ calls = <<CustomerCreate, SubscriptionCreate("cus_2")>>
    /\ raised = "CardError"
    /\ resp = Response(400, "Card error", <<>>)

====
